---- MODULE Spec2Model ----
(***************************************************************************)
(* The Spotify AppleScript MCP server: the CallTool dispatcher, its        *)
(* argument validators, the script builders and the osascript executor.    *)
(*                                                                         *)
(* The repository holds two variants of the server.  src/server/index.js   *)
(* (version 0.0.3, "typed") validates set_volume / set_position /          *)
(* set_repeat / set_shuffle arguments and escapes with JSON.stringify;     *)
(* src/unnamed/part_000 (version 0.0.1, "loose") interpolates those        *)
(* arguments unvalidated and escapes with two replace() calls.  The        *)
(* variable `variant` says which of the two files is running.              *)
(*                                                                         *)
(* JavaScript strings are sequences of one-character strings, so that      *)
(* escaping, the URI regular expression, trimming and number formatting    *)
(* are computed character by character.                                    *)
(***************************************************************************)
EXTENDS Integers, Sequences, FiniteSets

(***************************************************************************)
(* Bounds of the model.                                                    *)
(***************************************************************************)
\* Number of call slots: calls the transport may have in flight at once.
NumCalls == 1

\* How far the sampled integers reach beyond each end of [0,100].
MaxOver == 1

(***************************************************************************)
(* Program constants.                                                      *)
(***************************************************************************)
OSASCRIPT_TIMEOUT == 30000

\* maxBuffer: 1024 * 1024
maxBuffer == 1024 * 1024

(***************************************************************************)
(* String literals of the source, character by character.                  *)
(***************************************************************************)
\* 'spotify_play'
spotify_play ==
    <<"s","p","o","t","i","f","y","_","p","l","a","y">>

\* 'spotify_pause'
spotify_pause ==
    <<"s","p","o","t","i","f","y","_","p","a","u","s","e">>

\* 'spotify_playpause'
spotify_playpause ==
    <<"s","p","o","t","i","f","y","_","p","l","a","y","p","a","u","s","e">>

\* 'spotify_next_track'
spotify_next_track ==
    <<"s","p","o","t","i","f","y","_","n","e","x","t","_","t","r","a","c","k">>

\* 'spotify_previous_track'
spotify_previous_track ==
    <<"s","p","o","t","i","f","y","_","p","r","e","v","i","o","u","s","_","t","r","a","c","k">>

\* 'spotify_play_track'
spotify_play_track ==
    <<"s","p","o","t","i","f","y","_","p","l","a","y","_","t","r","a","c","k">>

\* 'spotify_get_current_track'
spotify_get_current_track ==
    <<"s","p","o","t","i","f","y","_","g","e","t","_","c","u","r","r","e","n","t","_","t","r",
      "a","c","k">>

\* 'spotify_get_player_state'
spotify_get_player_state ==
    <<"s","p","o","t","i","f","y","_","g","e","t","_","p","l","a","y","e","r","_","s","t","a",
      "t","e">>

\* 'spotify_set_volume'
spotify_set_volume ==
    <<"s","p","o","t","i","f","y","_","s","e","t","_","v","o","l","u","m","e">>

\* 'spotify_get_volume'
spotify_get_volume ==
    <<"s","p","o","t","i","f","y","_","g","e","t","_","v","o","l","u","m","e">>

\* 'spotify_set_position'
spotify_set_position ==
    <<"s","p","o","t","i","f","y","_","s","e","t","_","p","o","s","i","t","i","o","n">>

\* 'spotify_get_position'
spotify_get_position ==
    <<"s","p","o","t","i","f","y","_","g","e","t","_","p","o","s","i","t","i","o","n">>

\* 'spotify_set_repeat'
spotify_set_repeat ==
    <<"s","p","o","t","i","f","y","_","s","e","t","_","r","e","p","e","a","t">>

\* 'spotify_get_repeat'
spotify_get_repeat ==
    <<"s","p","o","t","i","f","y","_","g","e","t","_","r","e","p","e","a","t">>

\* 'spotify_set_shuffle'
spotify_set_shuffle ==
    <<"s","p","o","t","i","f","y","_","s","e","t","_","s","h","u","f","f","l","e">>

\* 'spotify_get_shuffle'
spotify_get_shuffle ==
    <<"s","p","o","t","i","f","y","_","g","e","t","_","s","h","u","f","f","l","e">>

\* 'spotify_frobnicate'
spotify_frobnicate ==
    <<"s","p","o","t","i","f","y","_","f","r","o","b","n","i","c","a","t","e">>

\* 'tell application "Spotify" to play'
ScriptPlay ==
    <<"t","e","l","l"," ","a","p","p","l","i","c","a","t","i","o","n"," ","\"","S","p","o","t",
      "i","f","y","\""," ","t","o"," ","p","l","a","y">>

\* 'tell application "Spotify" to pause'
ScriptPause ==
    <<"t","e","l","l"," ","a","p","p","l","i","c","a","t","i","o","n"," ","\"","S","p","o","t",
      "i","f","y","\""," ","t","o"," ","p","a","u","s","e">>

\* 'tell application "Spotify" to playpause'
ScriptPlayPause ==
    <<"t","e","l","l"," ","a","p","p","l","i","c","a","t","i","o","n"," ","\"","S","p","o","t",
      "i","f","y","\""," ","t","o"," ","p","l","a","y","p","a","u","s","e">>

\* 'tell application "Spotify" to next track'
ScriptNextTrack ==
    <<"t","e","l","l"," ","a","p","p","l","i","c","a","t","i","o","n"," ","\"","S","p","o","t",
      "i","f","y","\""," ","t","o"," ","n","e","x","t"," ","t","r","a","c","k">>

\* 'tell application "Spotify" to previous track'
ScriptPreviousTrack ==
    <<"t","e","l","l"," ","a","p","p","l","i","c","a","t","i","o","n"," ","\"","S","p","o","t",
      "i","f","y","\""," ","t","o"," ","p","r","e","v","i","o","u","s"," ","t","r","a","c","k">>

\* 'tell application "Spotify" to play track "'
ScriptPlayTrackHead ==
    <<"t","e","l","l"," ","a","p","p","l","i","c","a","t","i","o","n"," ","\"","S","p","o","t",
      "i","f","y","\""," ","t","o"," ","p","l","a","y"," ","t","r","a","c","k"," ","\"">>

\* '" in context "'
ScriptInContext ==
    <<"\""," ","i","n"," ","c","o","n","t","e","x","t"," ","\"">>

\* '"'
ScriptQuote ==
    <<"\"">>

\* the multi-line current-track script (template literal, \\n read as backslash n)
ScriptGetCurrentTrack ==
    <<"\n"," "," "," "," "," "," "," "," "," "," "," "," "," "," ","t","e","l","l"," ","a","p",
      "p","l","i","c","a","t","i","o","n"," ","\"","S","p","o","t","i","f","y","\"","\n"," ",
      " "," "," "," "," "," "," "," "," "," "," "," "," "," "," ","i","f"," ","p","l","a","y",
      "e","r"," ","s","t","a","t","e"," ","i","s"," ","n","o","t"," ","s","t","o","p","p","e",
      "d"," ","t","h","e","n","\n"," "," "," "," "," "," "," "," "," "," "," "," "," "," "," ",
      " "," "," ","s","e","t"," ","t","r","a","c","k","N","a","m","e"," ","t","o"," ","n","a",
      "m","e"," ","o","f"," ","c","u","r","r","e","n","t"," ","t","r","a","c","k","\n"," "," ",
      " "," "," "," "," "," "," "," "," "," "," "," "," "," "," "," ","s","e","t"," ","t","r",
      "a","c","k","A","r","t","i","s","t"," ","t","o"," ","a","r","t","i","s","t"," ","o","f",
      " ","c","u","r","r","e","n","t"," ","t","r","a","c","k","\n"," "," "," "," "," "," "," ",
      " "," "," "," "," "," "," "," "," "," "," ","s","e","t"," ","t","r","a","c","k","A","l",
      "b","u","m"," ","t","o"," ","a","l","b","u","m"," ","o","f"," ","c","u","r","r","e","n",
      "t"," ","t","r","a","c","k","\n"," "," "," "," "," "," "," "," "," "," "," "," "," "," ",
      " "," "," "," ","s","e","t"," ","t","r","a","c","k","D","u","r","a","t","i","o","n"," ",
      "t","o"," ","d","u","r","a","t","i","o","n"," ","o","f"," ","c","u","r","r","e","n","t",
      " ","t","r","a","c","k","\n"," "," "," "," "," "," "," "," "," "," "," "," "," "," "," ",
      " "," "," ","s","e","t"," ","t","r","a","c","k","P","o","p","u","l","a","r","i","t","y",
      " ","t","o"," ","p","o","p","u","l","a","r","i","t","y"," ","o","f"," ","c","u","r","r",
      "e","n","t"," ","t","r","a","c","k","\n"," "," "," "," "," "," "," "," "," "," "," "," ",
      " "," "," "," "," "," ","s","e","t"," ","t","r","a","c","k","I","d"," ","t","o"," ","i",
      "d"," ","o","f"," ","c","u","r","r","e","n","t"," ","t","r","a","c","k","\n"," "," "," ",
      " "," "," "," "," "," "," "," "," "," "," "," "," "," "," ","s","e","t"," ","t","r","a",
      "c","k","U","r","l"," ","t","o"," ","s","p","o","t","i","f","y"," ","u","r","l"," ","o",
      "f"," ","c","u","r","r","e","n","t"," ","t","r","a","c","k","\n"," "," "," "," "," "," ",
      " "," "," "," "," "," "," "," "," "," "," "," ","r","e","t","u","r","n"," ","\"","N","a",
      "m","e",":"," ","\""," ","&"," ","t","r","a","c","k","N","a","m","e"," ","&"," ","\"",
      "\\","n","A","r","t","i","s","t",":"," ","\""," ","&"," ","t","r","a","c","k","A","r","t",
      "i","s","t"," ","&"," ","\"","\\","n","A","l","b","u","m",":"," ","\""," ","&"," ","t",
      "r","a","c","k","A","l","b","u","m"," ","&"," ","\"","\\","n","D","u","r","a","t","i","o",
      "n",":"," ","\""," ","&"," ","t","r","a","c","k","D","u","r","a","t","i","o","n"," ","&",
      " ","\""," ","m","s","\\","n","P","o","p","u","l","a","r","i","t","y",":"," ","\""," ",
      "&"," ","t","r","a","c","k","P","o","p","u","l","a","r","i","t","y"," ","&"," ","\"","\\",
      "n","I","D",":"," ","\""," ","&"," ","t","r","a","c","k","I","d"," ","&"," ","\"","\\",
      "n","U","R","L",":"," ","\""," ","&"," ","t","r","a","c","k","U","r","l","\n"," "," "," ",
      " "," "," "," "," "," "," "," "," "," "," "," "," ","e","l","s","e","\n"," "," "," "," ",
      " "," "," "," "," "," "," "," "," "," "," "," "," "," ","r","e","t","u","r","n"," ","\"",
      "N","o"," ","t","r","a","c","k"," ","i","s"," ","c","u","r","r","e","n","t","l","y"," ",
      "p","l","a","y","i","n","g","\"","\n"," "," "," "," "," "," "," "," "," "," "," "," "," ",
      " "," "," ","e","n","d"," ","i","f","\n"," "," "," "," "," "," "," "," "," "," "," "," ",
      " "," ","e","n","d"," ","t","e","l","l","\n"," "," "," "," "," "," "," "," "," "," "," ",
      " ">>

\* 'tell application "Spotify" to return player state as string'
ScriptGetPlayerState ==
    <<"t","e","l","l"," ","a","p","p","l","i","c","a","t","i","o","n"," ","\"","S","p","o","t",
      "i","f","y","\""," ","t","o"," ","r","e","t","u","r","n"," ","p","l","a","y","e","r"," ",
      "s","t","a","t","e"," ","a","s"," ","s","t","r","i","n","g">>

\* 'tell application "Spotify" to set sound volume to '
ScriptSetVolumeHead ==
    <<"t","e","l","l"," ","a","p","p","l","i","c","a","t","i","o","n"," ","\"","S","p","o","t",
      "i","f","y","\""," ","t","o"," ","s","e","t"," ","s","o","u","n","d"," ","v","o","l","u",
      "m","e"," ","t","o"," ">>

\* 'tell application "Spotify" to return sound volume'
ScriptGetVolume ==
    <<"t","e","l","l"," ","a","p","p","l","i","c","a","t","i","o","n"," ","\"","S","p","o","t",
      "i","f","y","\""," ","t","o"," ","r","e","t","u","r","n"," ","s","o","u","n","d"," ","v",
      "o","l","u","m","e">>

\* 'tell application "Spotify" to set player position to '
ScriptSetPositionHead ==
    <<"t","e","l","l"," ","a","p","p","l","i","c","a","t","i","o","n"," ","\"","S","p","o","t",
      "i","f","y","\""," ","t","o"," ","s","e","t"," ","p","l","a","y","e","r"," ","p","o","s",
      "i","t","i","o","n"," ","t","o"," ">>

\* 'tell application "Spotify" to return player position'
ScriptGetPosition ==
    <<"t","e","l","l"," ","a","p","p","l","i","c","a","t","i","o","n"," ","\"","S","p","o","t",
      "i","f","y","\""," ","t","o"," ","r","e","t","u","r","n"," ","p","l","a","y","e","r"," ",
      "p","o","s","i","t","i","o","n">>

\* 'tell application "Spotify" to set repeating to '
ScriptSetRepeatHead ==
    <<"t","e","l","l"," ","a","p","p","l","i","c","a","t","i","o","n"," ","\"","S","p","o","t",
      "i","f","y","\""," ","t","o"," ","s","e","t"," ","r","e","p","e","a","t","i","n","g"," ",
      "t","o"," ">>

\* 'tell application "Spotify" to return repeating'
ScriptGetRepeat ==
    <<"t","e","l","l"," ","a","p","p","l","i","c","a","t","i","o","n"," ","\"","S","p","o","t",
      "i","f","y","\""," ","t","o"," ","r","e","t","u","r","n"," ","r","e","p","e","a","t","i",
      "n","g">>

\* 'tell application "Spotify" to set shuffling to '
ScriptSetShuffleHead ==
    <<"t","e","l","l"," ","a","p","p","l","i","c","a","t","i","o","n"," ","\"","S","p","o","t",
      "i","f","y","\""," ","t","o"," ","s","e","t"," ","s","h","u","f","f","l","i","n","g"," ",
      "t","o"," ">>

\* 'tell application "Spotify" to return shuffling'
ScriptGetShuffle ==
    <<"t","e","l","l"," ","a","p","p","l","i","c","a","t","i","o","n"," ","\"","S","p","o","t",
      "i","f","y","\""," ","t","o"," ","r","e","t","u","r","n"," ","s","h","u","f","f","l","i",
      "n","g">>

\* 'Tool name is required'
MsgToolNameRequired ==
    <<"T","o","o","l"," ","n","a","m","e"," ","i","s"," ","r","e","q","u","i","r","e","d">>

\* 'Invalid Spotify URI format'
MsgInvalidUri ==
    <<"I","n","v","a","l","i","d"," ","S","p","o","t","i","f","y"," ","U","R","I"," ","f","o",
      "r","m","a","t">>

\* 'Invalid Spotify context URI format'
MsgInvalidContext ==
    <<"I","n","v","a","l","i","d"," ","S","p","o","t","i","f","y"," ","c","o","n","t","e","x",
      "t"," ","U","R","I"," ","f","o","r","m","a","t">>

\* 'Unknown tool: '
MsgUnknownTool ==
    <<"U","n","k","n","o","w","n"," ","t","o","o","l",":"," ">>

\* 'Error: '
ErrorPrefix ==
    <<"E","r","r","o","r",":"," ">>

\* ' must be an integer'
MsgMustBeInteger ==
    <<" ","m","u","s","t"," ","b","e"," ","a","n"," ","i","n","t","e","g","e","r">>

\* ' must be a valid number'
MsgMustBeNumber ==
    <<" ","m","u","s","t"," ","b","e"," ","a"," ","v","a","l","i","d"," ","n","u","m","b","e",
      "r">>

\* ' must be a boolean'
MsgMustBeBoolean ==
    <<" ","m","u","s","t"," ","b","e"," ","a"," ","b","o","o","l","e","a","n">>

\* ' must be between '
MsgMustBeBetween ==
    <<" ","m","u","s","t"," ","b","e"," ","b","e","t","w","e","e","n"," ">>

\* ' and '
MsgAnd ==
    <<" ","a","n","d"," ">>

\* 'volume'
ParamVolume ==
    <<"v","o","l","u","m","e">>

\* 'position'
ParamPosition ==
    <<"p","o","s","i","t","i","o","n">>

\* 'enabled'
ParamEnabled ==
    <<"e","n","a","b","l","e","d">>

\* 'Infinity'
TextInfinity ==
    <<"I","n","f","i","n","i","t","y">>

\* 'NaN'
TextNaN ==
    <<"N","a","N">>

\* 'true'
TextTrue ==
    <<"t","r","u","e">>

\* 'false'
TextFalse ==
    <<"f","a","l","s","e">>

\* 'null'
TextNull ==
    <<"n","u","l","l">>

\* 'undefined'
TextUndefined ==
    <<"u","n","d","e","f","i","n","e","d">>

\* '[object Object]'
TextObject ==
    <<"[","o","b","j","e","c","t"," ","O","b","j","e","c","t","]">>

\* 'spotify:'
UriPrefix ==
    <<"s","p","o","t","i","f","y",":">>

\* 'Command failed: osascript -e '
MsgCommandFailed ==
    <<"C","o","m","m","a","n","d"," ","f","a","i","l","e","d",":"," ","o","s","a","s","c","r",
      "i","p","t"," ","-","e"," ">>

\* 'stdout maxBuffer length exceeded'
MsgMaxBuffer ==
    <<"s","t","d","o","u","t"," ","m","a","x","B","u","f","f","e","r"," ","l","e","n","g","t",
      "h"," ","e","x","c","e","e","d","e","d">>


\* (track|album|artist|playlist|show|episode|user|collection)
UriTypes ==
    { <<"t","r","a","c","k">>,
      <<"a","l","b","u","m">>,
      <<"a","r","t","i","s","t">>,
      <<"p","l","a","y","l","i","s","t">>,
      <<"s","h","o","w">>,
      <<"e","p","i","s","o","d","e">>,
      <<"u","s","e","r">>,
      <<"c","o","l","l","e","c","t","i","o","n">> }

(***************************************************************************)
(* Character classes.                                                      *)
(***************************************************************************)
Lower ==
    {"a","b","c","d","e","f","g","h","i","j","k","l","m","n","o","p","q","r","s","t","u","v","w","x","y","z"}

Upper ==
    {"A","B","C","D","E","F","G","H","I","J","K","L","M","N","O","P","Q","R","S","T","U","V","W","X","Y","Z"}

Digit ==
    {"0","1","2","3","4","5","6","7","8","9"}

\* [a-zA-Z0-9]
Alnum == Lower \cup Upper \cup Digit

\* White space removed by String.prototype.trim and skipped by Number(string),
\* as far as TLA+ strings can write it.
WhiteSpace == {" ", "\t", "\n", "\r", "\f"}

DigitChar == <<"0","1","2","3","4","5","6","7","8","9">>

DigitValue(c) == CHOOSE d \in 0..9 : DigitChar[d + 1] = c

(***************************************************************************)
(* JavaScript values.  A value carries its typeof tag t; b is the boolean, *)
(* n the number, s the string, each meaningful under its own tag only.     *)
(* A number is NaN, an infinity, or a finite decimal: a sign, an integer   *)
(* part and the fraction's digits (no trailing zero), so that -0.0001 is   *)
(* [neg |-> TRUE, int |-> 0, frac |-> <<0,0,0,1>>].                        *)
(***************************************************************************)
Finite(neg, int, frac) == [k |-> "finite", neg |-> neg, int |-> int, frac |-> frac]

NaN == [k |-> "NaN", neg |-> FALSE, int |-> 0, frac |-> <<>>]

Infinity == [k |-> "Infinity", neg |-> FALSE, int |-> 0, frac |-> <<>>]

NegInfinity == [k |-> "Infinity", neg |-> TRUE, int |-> 0, frac |-> <<>>]

Zero == Finite(FALSE, 0, <<>>)

IntNum(i) == IF i < 0 THEN Finite(TRUE, 0 - i, <<>>) ELSE Finite(FALSE, i, <<>>)

Undefined == [t |-> "undefined", b |-> FALSE, n |-> NaN, s |-> <<>>]

Null == [t |-> "object", b |-> FALSE, n |-> NaN, s |-> <<>>]

\* null (typeof "object", falsy) and a plain object {} (typeof "object", truthy).
Obj == [t |-> "object", b |-> TRUE, n |-> NaN, s |-> <<>>]

Bool(b) == [t |-> "boolean", b |-> b, n |-> NaN, s |-> <<>>]

Num(n) == [t |-> "number", b |-> FALSE, n |-> n, s |-> <<>>]

Str(s) == [t |-> "string", b |-> FALSE, n |-> NaN, s |-> s]

\* typeof v
TypeOf(v) == v.t

IsZero(n) == n.k = "finite" /\ n.int = 0 /\ n.frac = <<>>

\* Digit i of a fraction, 0 past its end.
FracDigit(f, i) == IF i <= Len(f) THEN f[i] ELSE 0

FracLess(f, g) ==
    \E i \in 1..(Len(f) + Len(g)) :
        /\ FracDigit(f, i) < FracDigit(g, i)
        /\ \A j \in 1..(i - 1) : FracDigit(f, j) = FracDigit(g, j)

MagLess(a, b) == a.int < b.int \/ (a.int = b.int /\ FracLess(a.frac, b.frac))

IsNegative(n) == n.neg /\ ~IsZero(n)

\* a < b as JavaScript compares numbers: false when either is NaN, -0 = +0.
Less(a, b) ==
    CASE a.k = "NaN" \/ b.k = "NaN" -> FALSE
      [] a.k = "Infinity" /\ b.k = "Infinity" -> a.neg /\ ~b.neg
      [] a.k = "Infinity" -> a.neg
      [] b.k = "Infinity" -> ~b.neg
      [] IsNegative(a) /\ ~IsNegative(b) -> TRUE
      [] ~IsNegative(a) /\ IsNegative(b) -> FALSE
      [] IsNegative(a) /\ IsNegative(b) -> MagLess(b, a)
      [] OTHER -> MagLess(a, b)

\* Number.isFinite(n), Number.isInteger(n)
IsFinite(n) == n.k = "finite"

IsInteger(n) == n.k = "finite" /\ n.frac = <<>>

\* ToBoolean: what `!v`, `v && ...` and `v || ...` test.
Truthy(v) ==
    CASE v.t = "undefined" -> FALSE
      [] v.t = "boolean" -> v.b
      [] v.t = "number" -> ~(v.n.k = "NaN" \/ IsZero(v.n))
      [] v.t = "string" -> v.s # <<>>
      [] OTHER -> v.b

(***************************************************************************)
(* Number <-> string.                                                      *)
(***************************************************************************)
RECURSIVE NatToChars(_)
NatToChars(i) ==
    IF i < 10 THEN <<DigitChar[i + 1]>>
    ELSE NatToChars(i \div 10) \o <<DigitChar[(i % 10) + 1]>>

DigitsToChars(ds) == [i \in 1..Len(ds) |-> DigitChar[ds[i] + 1]]

\* Number.prototype.toString for NaN, the infinities and the decimals that
\* JavaScript writes without an exponent (1e-6 <= |n| < 1e21); -0 is "0".
NumberToString(n) ==
    CASE n.k = "NaN" -> TextNaN
      [] n.k = "Infinity" -> (IF n.neg THEN <<"-">> ELSE <<>>) \o TextInfinity
      [] OTHER ->
           (IF n.neg /\ ~IsZero(n) THEN <<"-">> ELSE <<>>)
           \o NatToChars(n.int)
           \o (IF n.frac = <<>> THEN <<>> ELSE <<".">> \o DigitsToChars(n.frac))

RECURSIVE TrimStart(_)
TrimStart(s) ==
    IF s # <<>> /\ Head(s) \in WhiteSpace THEN TrimStart(Tail(s)) ELSE s

RECURSIVE TrimEnd(_)
TrimEnd(s) ==
    IF s # <<>> /\ s[Len(s)] \in WhiteSpace
    THEN TrimEnd(SubSeq(s, 1, Len(s) - 1)) ELSE s

\* String.prototype.trim
Trim(s) == TrimEnd(TrimStart(s))

AllDigits(s) == \A i \in 1..Len(s) : s[i] \in Digit

RECURSIVE CharsToNat(_)
CharsToNat(s) ==
    IF s = <<>> THEN 0
    ELSE 10 * CharsToNat(SubSeq(s, 1, Len(s) - 1)) + DigitValue(s[Len(s)])

RECURSIVE StripZeros(_)
StripZeros(ds) ==
    IF ds # <<>> /\ ds[Len(ds)] = 0 THEN StripZeros(SubSeq(ds, 1, Len(ds) - 1)) ELSE ds

\* Position of the first "." of s, or Len(s) + 1.
DotAt(s) ==
    IF \E i \in 1..Len(s) : s[i] = "."
    THEN CHOOSE i \in 1..Len(s) : s[i] = "." /\ \A j \in 1..(i - 1) : s[j] # "."
    ELSE Len(s) + 1

\* An unsigned StrDecimalLiteral without exponent: digits, digits.digits,
\* digits. or .digits; anything else is NaN.
UnsignedToNumber(neg, s) ==
    LET d == DotAt(s)
        ip == SubSeq(s, 1, d - 1)
        fp == SubSeq(s, d + 1, Len(s))
    IN  IF s = TextInfinity THEN (IF neg THEN NegInfinity ELSE Infinity)
        ELSE IF (ip = <<>> /\ fp = <<>>) \/ ~AllDigits(ip) \/ ~AllDigits(fp) THEN NaN
        ELSE Finite(neg, CharsToNat(ip),
                    StripZeros([i \in 1..Len(fp) |-> DigitValue(fp[i])]))

\* Number(string): white space is trimmed, "" is 0, then an optionally signed
\* decimal literal or Infinity.  (Exponent and 0x/0o/0b literals are outside
\* the strings sampled here.)
StringToNumber(s) ==
    LET t == Trim(s)
    IN  IF t = <<>> THEN Zero
        ELSE IF Head(t) = "-" THEN UnsignedToNumber(TRUE, Tail(t))
        ELSE IF Head(t) = "+" THEN UnsignedToNumber(FALSE, Tail(t))
        ELSE UnsignedToNumber(FALSE, t)

\* Number(value)
ToNumber(v) ==
    CASE v.t = "undefined" -> NaN
      [] v.t = "boolean" -> (IF v.b THEN IntNum(1) ELSE Zero)
      [] v.t = "number" -> v.n
      [] v.t = "string" -> StringToNumber(v.s)
      [] OTHER -> (IF v = Null THEN Zero ELSE NaN)

\* String(value), as a template literal `${value}` renders it.
ToStringJS(v) ==
    CASE v.t = "undefined" -> TextUndefined
      [] v.t = "boolean" -> (IF v.b THEN TextTrue ELSE TextFalse)
      [] v.t = "number" -> NumberToString(v.n)
      [] v.t = "string" -> v.s
      [] OTHER -> (IF v = Null THEN TextNull ELSE TextObject)

(***************************************************************************)
(* escapeAppleScriptString, in both files.                                 *)
(***************************************************************************)
\* What JSON.stringify writes for one character inside the quotes.
JsonEscapeChar(c) ==
    CASE c = "\"" -> <<"\\", "\"">>
      [] c = "\\" -> <<"\\", "\\">>
      [] c = "\n" -> <<"\\", "n">>
      [] c = "\t" -> <<"\\", "t">>
      [] c = "\r" -> <<"\\", "r">>
      [] c = "\f" -> <<"\\", "f">>
      [] OTHER -> <<c>>

RECURSIVE JsonEscape(_)
JsonEscape(s) ==
    IF s = <<>> THEN <<>> ELSE JsonEscapeChar(Head(s)) \o JsonEscape(Tail(s))

\* src/server/index.js: JSON.stringify(str).slice(1, -1)
escapeAppleScriptString(str) ==
    IF TypeOf(str) # "string" THEN <<>>
    ELSE LET json == <<"\"">> \o JsonEscape(str.s) \o <<"\"">>
         IN  SubSeq(json, 2, Len(json) - 1)

\* s.replace(/c/g, rep)
RECURSIVE ReplaceAll(_, _, _)
ReplaceAll(s, c, rep) ==
    IF s = <<>> THEN <<>>
    ELSE (IF Head(s) = c THEN rep ELSE <<Head(s)>>) \o ReplaceAll(Tail(s), c, rep)

\* src/unnamed/part_000: str.replace(/\\/g, "\\\\").replace(/"/g, '\\"')
escapeAppleScriptStringLoose(str) ==
    IF TypeOf(str) # "string" THEN <<>>
    ELSE ReplaceAll(ReplaceAll(str.s, "\\", <<"\\", "\\">>), "\"", <<"\\", "\"">>)

escapeFor(v, str) ==
    IF v = "typed" THEN escapeAppleScriptString(str) ELSE escapeAppleScriptStringLoose(str)

(***************************************************************************)
(* Validators (src/server/index.js only).  A validator returns its value   *)
(* or throws: [ok, value, message].                                        *)
(***************************************************************************)
Returned(value) == [ok |-> TRUE, value |-> value, message |-> <<>>]

Thrown(value, message) == [ok |-> FALSE, value |-> value, message |-> message]

validateInteger(value, name, min, max) ==
    LET num == ToNumber(value)
    IN  IF ~IsInteger(num) THEN Thrown(NaN, name \o MsgMustBeInteger)
        ELSE IF Less(num, min) \/ Less(max, num)
        THEN Thrown(NaN, name \o MsgMustBeBetween \o NumberToString(min)
                              \o MsgAnd \o NumberToString(max))
        ELSE Returned(num)

validateNumber(value, name, min, max) ==
    LET num == ToNumber(value)
    IN  IF ~IsFinite(num) THEN Thrown(NaN, name \o MsgMustBeNumber)
        ELSE IF Less(num, min) \/ Less(max, num)
        THEN Thrown(NaN, name \o MsgMustBeBetween \o NumberToString(min)
                              \o MsgAnd \o NumberToString(max))
        ELSE Returned(num)

validateBoolean(value, name) ==
    IF TypeOf(value) # "boolean" THEN Thrown(FALSE, name \o MsgMustBeBoolean)
    ELSE Returned(value.b)

(***************************************************************************)
(* isValidSpotifyUri:                                                      *)
(* /^spotify:(track|album|artist|playlist|show|episode|user|collection)    *)
(*  (:[a-zA-Z0-9]+)+$/                                                     *)
(***************************************************************************)
HasPrefix(s, p) == Len(s) >= Len(p) /\ SubSeq(s, 1, Len(p)) = p

Drop(s, n) == SubSeq(s, n + 1, Len(s))

\* Length of the longest prefix of s made of [a-zA-Z0-9].
RECURSIVE AlnumRun(_)
AlnumRun(s) ==
    IF s # <<>> /\ Head(s) \in Alnum THEN 1 + AlnumRun(Tail(s)) ELSE 0

\* (:[a-zA-Z0-9]+)+$ : the run is followed by the end or by another ":".
RECURSIVE MatchSegments(_)
MatchSegments(r) ==
    /\ r # <<>>
    /\ Head(r) = ":"
    /\ LET n == AlnumRun(Tail(r))
       IN  /\ n >= 1
           /\ \/ n = Len(r) - 1
              \/ MatchSegments(Drop(r, n + 1))

\* Mutant: the pattern without its closing $ anchor.
spotifyUriPatternUnanchored(s) ==
    /\ HasPrefix(s, UriPrefix)
    /\ \E type \in UriTypes :
          /\ HasPrefix(Drop(s, Len(UriPrefix)), type)
          /\ LET r == Drop(s, Len(UriPrefix) + Len(type))
             IN  r # <<>> /\ Head(r) = ":" /\ AlnumRun(Tail(r)) >= 1

spotifyUriPattern(s) ==
    /\ HasPrefix(s, UriPrefix)
    /\ \E type \in UriTypes :
          /\ HasPrefix(Drop(s, Len(UriPrefix)), type)
          /\ MatchSegments(Drop(s, Len(UriPrefix) + Len(type)))

isValidSpotifyUri(uri) ==
    IF TypeOf(uri) # "string" THEN FALSE ELSE spotifyUriPattern(uri.s)

(***************************************************************************)
(* The CallToolRequestSchema handler up to its first await.                *)
(* A request is params.name and params.arguments (absent, or a bag whose   *)
(* missing keys read as undefined).                                        *)
(***************************************************************************)
EmptyArgs ==
    [uri |-> Undefined, context |-> Undefined, volume |-> Undefined,
     position |-> Undefined, enabled |-> Undefined]

\* const args = request.params.arguments || {};
ArgsOf(request) == IF request.hasArguments THEN request.arguments ELSE EmptyArgs

\* The three ways the synchronous part ends: the executor is invoked with a
\* script, an Error is thrown inside the try, an Error is thrown before it.
Exec(script) == [kind |-> "exec", script |-> script, message |-> <<>>]

Raise(message) == [kind |-> "error", script |-> <<>>, message |-> message]

Fault(message) == [kind |-> "throw", script |-> <<>>, message |-> message]

\* Mutant: the context is escaped and used without the grammar check.
CasePlayTrackUncheckedContext(v, args) ==
    IF ~isValidSpotifyUri(args.uri) THEN Raise(MsgInvalidUri)
    ELSE LET safeUri == escapeFor(v, args.uri)
             safeContext == IF Truthy(args.context)
                            THEN Str(escapeFor(v, args.context)) ELSE Null
             playScript ==
                 IF Truthy(safeContext)
                 THEN ScriptPlayTrackHead \o safeUri \o ScriptInContext
                      \o safeContext.s \o ScriptQuote
                 ELSE ScriptPlayTrackHead \o safeUri \o ScriptQuote
         IN  Exec(playScript)

\* case "spotify_play_track", the same in both files.
CasePlayTrack(v, args) ==
    IF ~isValidSpotifyUri(args.uri) THEN Raise(MsgInvalidUri)
    ELSE IF Truthy(args.context) /\ ~isValidSpotifyUri(args.context)
    THEN Raise(MsgInvalidContext)
    ELSE LET safeUri == escapeFor(v, args.uri)
             safeContext == IF Truthy(args.context)
                            THEN Str(escapeFor(v, args.context)) ELSE Null
             playScript ==
                 IF Truthy(safeContext)
                 THEN ScriptPlayTrackHead \o safeUri \o ScriptInContext
                      \o safeContext.s \o ScriptQuote
                 ELSE ScriptPlayTrackHead \o safeUri \o ScriptQuote
         IN  Exec(playScript)

\* case "spotify_set_volume"
CaseSetVolume(v, args) ==
    IF v = "typed"
    THEN LET safeVolume == validateInteger(args.volume, ParamVolume, IntNum(0), IntNum(100))
         IN  IF safeVolume.ok
             THEN Exec(ScriptSetVolumeHead \o NumberToString(safeVolume.value))
             ELSE Raise(safeVolume.message)
    ELSE Exec(ScriptSetVolumeHead \o ToStringJS(args.volume))

\* case "spotify_set_position"
CaseSetPosition(v, args) ==
    IF v = "typed"
    THEN LET safePosition == validateNumber(args.position, ParamPosition, IntNum(0), Infinity)
         IN  IF safePosition.ok
             THEN Exec(ScriptSetPositionHead \o NumberToString(safePosition.value))
             ELSE Raise(safePosition.message)
    ELSE Exec(ScriptSetPositionHead \o ToStringJS(args.position))

\* case "spotify_set_repeat"
CaseSetRepeat(v, args) ==
    IF v = "typed"
    THEN LET safeRepeat == validateBoolean(args.enabled, ParamEnabled)
         IN  IF safeRepeat.ok
             THEN Exec(ScriptSetRepeatHead \o ToStringJS(Bool(safeRepeat.value)))
             ELSE Raise(safeRepeat.message)
    ELSE Exec(ScriptSetRepeatHead \o ToStringJS(args.enabled))

\* case "spotify_set_shuffle"
CaseSetShuffle(v, args) ==
    IF v = "typed"
    THEN LET safeShuffle == validateBoolean(args.enabled, ParamEnabled)
         IN  IF safeShuffle.ok
             THEN Exec(ScriptSetShuffleHead \o ToStringJS(Bool(safeShuffle.value)))
             ELSE Raise(safeShuffle.message)
    ELSE Exec(ScriptSetShuffleHead \o ToStringJS(args.enabled))

\* Mutant: the message without the requested name.
DefaultCaseNoName(toolName) == Raise(MsgUnknownTool)

\* default: throw new Error(`Unknown tool: ${toolName}`)
DefaultCase(toolName) == Raise(MsgUnknownTool \o ToStringJS(toolName))

\* Mutant: the switch has no case for the last tool of the list.
SwitchWithoutGetShuffle(v, toolName, args) ==
    CASE toolName = Str(spotify_play) -> Exec(ScriptPlay)
      [] toolName = Str(spotify_pause) -> Exec(ScriptPause)
      [] toolName = Str(spotify_playpause) -> Exec(ScriptPlayPause)
      [] toolName = Str(spotify_next_track) -> Exec(ScriptNextTrack)
      [] toolName = Str(spotify_previous_track) -> Exec(ScriptPreviousTrack)
      [] toolName = Str(spotify_play_track) -> CasePlayTrack(v, args)
      [] toolName = Str(spotify_get_current_track) -> Exec(ScriptGetCurrentTrack)
      [] toolName = Str(spotify_get_player_state) -> Exec(ScriptGetPlayerState)
      [] toolName = Str(spotify_set_volume) -> CaseSetVolume(v, args)
      [] toolName = Str(spotify_get_volume) -> Exec(ScriptGetVolume)
      [] toolName = Str(spotify_set_position) -> CaseSetPosition(v, args)
      [] toolName = Str(spotify_get_position) -> Exec(ScriptGetPosition)
      [] toolName = Str(spotify_set_repeat) -> CaseSetRepeat(v, args)
      [] toolName = Str(spotify_get_repeat) -> Exec(ScriptGetRepeat)
      [] toolName = Str(spotify_set_shuffle) -> CaseSetShuffle(v, args)
      [] OTHER -> DefaultCase(toolName)

\* switch (toolName): case labels compare with ===.
Switch(v, toolName, args) ==
    CASE toolName = Str(spotify_play) -> Exec(ScriptPlay)
      [] toolName = Str(spotify_pause) -> Exec(ScriptPause)
      [] toolName = Str(spotify_playpause) -> Exec(ScriptPlayPause)
      [] toolName = Str(spotify_next_track) -> Exec(ScriptNextTrack)
      [] toolName = Str(spotify_previous_track) -> Exec(ScriptPreviousTrack)
      [] toolName = Str(spotify_play_track) -> CasePlayTrack(v, args)
      [] toolName = Str(spotify_get_current_track) -> Exec(ScriptGetCurrentTrack)
      [] toolName = Str(spotify_get_player_state) -> Exec(ScriptGetPlayerState)
      [] toolName = Str(spotify_set_volume) -> CaseSetVolume(v, args)
      [] toolName = Str(spotify_get_volume) -> Exec(ScriptGetVolume)
      [] toolName = Str(spotify_set_position) -> CaseSetPosition(v, args)
      [] toolName = Str(spotify_get_position) -> Exec(ScriptGetPosition)
      [] toolName = Str(spotify_set_repeat) -> CaseSetRepeat(v, args)
      [] toolName = Str(spotify_get_repeat) -> Exec(ScriptGetRepeat)
      [] toolName = Str(spotify_set_shuffle) -> CaseSetShuffle(v, args)
      [] toolName = Str(spotify_get_shuffle) -> Exec(ScriptGetShuffle)
      [] OTHER -> DefaultCase(toolName)

\* Mutant: the name check moved inside the try block.
DispatchNameCheckInTry(v, req) ==
    IF ~Truthy(req.name) THEN Raise(MsgToolNameRequired)
    ELSE Switch(v, req.name, ArgsOf(req))

\* The handler from its entry to its first await (or to its end).
Dispatch(v, req) ==
    IF ~Truthy(req.name) THEN Fault(MsgToolNameRequired)
    ELSE Switch(v, req.name, ArgsOf(req))

(***************************************************************************)
(* The discovery list and the manifest.                                    *)
(***************************************************************************)
\* ListToolsRequestSchema handler: the names of `tools`, in the order of the
\* source (the same in both server files).
tools ==
    << spotify_play, spotify_pause, spotify_playpause, spotify_next_track,
       spotify_previous_track, spotify_play_track, spotify_get_current_track, spotify_get_player_state,
       spotify_set_volume, spotify_get_volume, spotify_set_position, spotify_get_position,
       spotify_set_repeat, spotify_get_repeat, spotify_set_shuffle, spotify_get_shuffle >>

\* manifest.json: the names of "tools".
manifestTools ==
    << spotify_play, spotify_pause, spotify_playpause, spotify_next_track,
       spotify_previous_track, spotify_play_track, spotify_get_current_track, spotify_get_player_state,
       spotify_set_volume, spotify_get_volume, spotify_set_position, spotify_get_position,
       spotify_set_repeat, spotify_get_repeat, spotify_set_shuffle, spotify_get_shuffle >>

(***************************************************************************)
(* Response envelopes.  isError is absent from a success envelope.         *)
(***************************************************************************)
SuccessEnvelope(result) == [content |-> <<[type |-> "text", text |-> result]>>]

ErrorEnvelope(message) ==
    [content |-> <<[type |-> "text", text |-> ErrorPrefix \o message]>>,
     isError |-> TRUE]

(***************************************************************************)
(* executeAppleScript: execFile("osascript", ["-e", script], options) and  *)
(* the ways the child process ends.  The script of the child is the last   *)
(* entry of `executed`.                                                    *)
(***************************************************************************)
NoChild == [file |-> <<>>, flag |-> <<>>, timeout |-> 0, maxBuffer |-> 0]

\* Mutant: execFile called without the timeout option.
SpawnWithoutTimeout ==
    [file |-> <<"o","s","a","s","c","r","i","p","t">>, flag |-> <<"-","e">>,
     timeout |-> 0, maxBuffer |-> maxBuffer]

Spawn ==
    [file |-> <<"o","s","a","s","c","r","i","p","t">>, flag |-> <<"-","e">>,
     timeout |-> OSASCRIPT_TIMEOUT, maxBuffer |-> maxBuffer]

\* What the child wrote to stdout when it exits 0 within the limits.
Stdouts ==
    { <<>>, <<" ","p","l","a","y","i","n","g"," ","\n">> }

\* The rejections of execFile: a non-zero exit, more than `maxBuffer` bytes
\* of output, and the kill once `timeout` milliseconds have passed.
ExecFailures == {"exit", "maxBuffer", "timeout"}

\* error.message of each rejection (stderr empty).
ExecErrorMessage(kind, script) ==
    IF kind = "maxBuffer" THEN MsgMaxBuffer
    ELSE MsgCommandFailed \o script

\* Mutant: the output returned as written.
ExecResultUntrimmed(stdout) == stdout

\* return stdout.trim();
ExecResult(stdout) == Trim(stdout)

(***************************************************************************)
(* The inputs a caller may send.                                           *)
(***************************************************************************)
\* Length of the longest sampled URI tail after "spotify:track".
MaxTail == 2

IntSamples == ((0 - MaxOver)..MaxOver) \cup ((100 - MaxOver)..(100 + MaxOver))

\* A second statement after a line break: "0", line feed, "beep".
InjectedStatement == <<"0", "\n", "b", "e", "e", "p">>

\* Values offered as volume: the integers around both ends of [0,100], 0.5,
\* non-numbers, and strings.
VolumeValues ==
    {Num(IntNum(i)) : i \in IntSamples}
    \cup {Undefined, Null, Num(Finite(FALSE, 0, <<5>>)), Num(NaN),
          Str(<<"5", "0">>), Str(InjectedStatement)}

\* Values offered as position: 0, -0.0001, 0.5, -1, the non-finite numbers,
\* non-numbers, and strings.
PositionValues ==
    {Undefined, Null, Num(Zero), Num(Finite(TRUE, 0, <<0, 0, 0, 1>>)),
     Num(Finite(FALSE, 0, <<5>>)), Num(IntNum(0 - 1)), Num(NaN), Num(Infinity),
     Num(NegInfinity), Str(<<"5", "0">>), Str(InjectedStatement)}

\* Values offered as enabled: the booleans and what a truthy test would take
\* for one.
EnabledValues ==
    {Undefined, Null, Obj, Bool(TRUE), Bool(FALSE), Num(IntNum(1)), Num(Zero),
     Str(TextTrue), Str(InjectedStatement)}

\* 'spotify:track:4uLU6hMCjMI75M1A2tKUQC'
TrackUri ==
    <<"s","p","o","t","i","f","y",":","t","r","a","c","k",":","4","u","L","U","6","h","M","C",
      "j","M","I","7","5","M","1","A","2","t","K","U","Q","C">>

\* 'spotify:user:a1:playlist:B2'
PlaylistUri ==
    <<"s","p","o","t","i","f","y",":","u","s","e","r",":","a","1",":","p","l","a","y","l","i",
      "s","t",":","B","2">>

\* 'spotify:album:x9'
AlbumUri ==
    <<"s","p","o","t","i","f","y",":","a","l","b","u","m",":","x","9">>

\* Strings outside the grammar: the documented examples, an unknown type, a
\* capital, a trailing line break, and strings carrying quotes and backslashes.
BadUriStrings ==
    { <<"n","o","t","-","a","-","u","r","i">>,
      <<"s","p","o","t","i","f","y",":","t","r","a","c","k",":">>,
      <<"s","p","o","t","i","f","y",":","t","r","a","c","k",":","h","a","s"," ","s","p","a","c","e">>,
      <<"s","p","o","t","i","f","y",":","v","i","d","e","o",":","a","b","c">>,
      <<"S","p","o","t","i","f","y",":","t","r","a","c","k",":","a","b","c">>,
      <<"s","p","o","t","i","f","y",":","t","r","a","c","k",":","a","b","c","\n">>,
      <<"s","p","o","t","i","f","y",":","t","r","a","c","k",":","a","\""," ","&"," ","\"","b">>,
      <<"s","p","o","t","i","f","y",":","t","r","a","c","k",":","a","\\","\"","b">>,
      <<"x","\""," ","&"," ","(","d","o"," ","s","h","e","l","l"," ","s","c","r","i","p","t"," ","\"",  "i","d","\"",")"," ","&"," ","\"">> }

TailAlphabet == {":", "a", " "}

\* Every string over TailAlphabet of length at most n.
RECURSIVE TailsUpTo(_)
TailsUpTo(n) ==
    IF n = 0 THEN {<<>>}
    ELSE LET shorter == TailsUpTo(n - 1)
         IN  shorter \cup {Append(t, c) : t \in shorter, c \in TailAlphabet}

\* "spotify:track" followed by every sampled tail.
TailUris == { UriPrefix \o <<"t","r","a","c","k">> \o t : t \in TailsUpTo(MaxTail) }

\* Values offered as uri.
UriValues ==
    {Undefined, Null, Obj, Num(IntNum(42))}
    \cup {Str(s) : s \in {TrackUri, PlaylistUri} \cup BadUriStrings \cup TailUris}

\* Values offered as context.
ContextValues ==
    {Undefined, Null, Obj, Num(IntNum(0)), Bool(FALSE), Str(<<>>), Str(AlbumUri)}
    \cup {Str(s) : s \in BadUriStrings}

NoArgTools ==
    { spotify_play, spotify_pause, spotify_playpause, spotify_next_track,
      spotify_previous_track, spotify_get_current_track, spotify_get_player_state,
      spotify_get_volume, spotify_get_position, spotify_get_repeat, spotify_get_shuffle }

Request(name, hasArguments, arguments) ==
    [name |-> name, hasArguments |-> hasArguments, arguments |-> arguments]

ParamTools ==
    { spotify_play_track, spotify_set_volume, spotify_set_position,
      spotify_set_repeat, spotify_set_shuffle }

Requests ==
    \* no arguments sent: every catalogue name, names outside it, no name
    { Request(n, FALSE, EmptyArgs) :
        n \in {Undefined, Str(<<>>), Str(spotify_frobnicate), Num(IntNum(42))}
              \cup {Str(t) : t \in NoArgTools \cup ParamTools} }
    \* an empty bag
    \cup { Request(Str(t), TRUE, EmptyArgs) : t \in ParamTools \cup {spotify_play} }
    \cup { Request(Str(spotify_set_volume), TRUE, [EmptyArgs EXCEPT !.volume = x]) :
             x \in VolumeValues }
    \cup { Request(Str(spotify_set_position), TRUE, [EmptyArgs EXCEPT !.position = x]) :
             x \in PositionValues }
    \cup { Request(Str(t), TRUE, [EmptyArgs EXCEPT !.enabled = x]) :
             t \in {spotify_set_repeat, spotify_set_shuffle}, x \in EnabledValues }
    \cup { Request(Str(spotify_play_track), TRUE, [EmptyArgs EXCEPT !.uri = u]) :
             u \in UriValues }
    \cup { Request(Str(spotify_play_track), TRUE,
                   [EmptyArgs EXCEPT !.uri = Str(TrackUri), !.context = x]) :
             x \in ContextValues }
    \* both invalid: the uri is looked at first
    \cup { Request(Str(spotify_play_track), TRUE,
                   [EmptyArgs EXCEPT !.uri = Str(u), !.context = Str(u)]) :
             u \in BadUriStrings }

(***************************************************************************)
(* Inputs of escapeAppleScriptString taken on its own: every string over   *)
(* EscapeAlphabet (a quote, a backslash, a line feed, a form feed, two     *)
(* letters) of length at most MaxStr, and values that are not text.        *)
(***************************************************************************)
MaxStr == 2

EscapeAlphabet == {"\"", "\\", "\n", "\f", "a", "n"}

\* Every string over EscapeAlphabet of length at most n.
RECURSIVE StringsUpTo(_)
StringsUpTo(n) ==
    IF n = 0 THEN {<<>>}
    ELSE LET shorter == StringsUpTo(n - 1)
         IN  shorter \cup {Append(t, c) : t \in shorter, c \in EscapeAlphabet}

EscapeInputs ==
    {Str(s) : s \in StringsUpTo(MaxStr)}
    \cup {Undefined, Null, Obj, Num(IntNum(42)), Bool(TRUE)}

\* What reading a literal gives when no literal has been read.
NoLiteral == [ok |-> FALSE, value |-> <<>>, rest |-> <<>>]

\* The function is not in use.
NoEscaping == [pc |-> "unused", str |-> Undefined, out |-> <<>>, back |-> NoLiteral]

(***************************************************************************)
(* State.                                                                  *)
(***************************************************************************)
VARIABLES
    variant,      \* "typed": src/server/index.js; "loose": src/unnamed/part_000
    pc,           \* per call: "idle", "awaiting", "returned", "thrown"
    request,      \* per call: the request being handled
    child,        \* per call: the osascript invocation awaited, or NoChild
    executed,     \* per call: the scripts handed to executeAppleScript so far
    settled,      \* per call: how the invocation ended: "none", "ok" or a failure
    stdout,       \* per call: what the child wrote to stdout
    response,     \* per call: the envelope the handler returned
    fault,        \* per call: the message of an Error the handler let escape
    escaping      \* one use of escapeAppleScriptString on its own: see EscapeSpec

\* The variables of the calls.
callVars == <<pc, request, child, executed, settled, stdout, response, fault>>

vars == <<variant, callVars, escaping>>

Calls == 1..NumCalls

Variants == {"typed", "loose"}

NoRequest == Request(Undefined, FALSE, EmptyArgs)

NoResponse == [content |-> <<>>]

Init ==
    /\ variant \in Variants
    /\ pc = [c \in Calls |-> "idle"]
    /\ request = [c \in Calls |-> NoRequest]
    /\ child = [c \in Calls |-> NoChild]
    /\ executed = [c \in Calls |-> <<>>]
    /\ settled = [c \in Calls |-> "none"]
    /\ stdout = [c \in Calls |-> <<>>]
    /\ response = [c \in Calls |-> NoResponse]
    /\ fault = [c \in Calls |-> <<>>]
    /\ escaping = NoEscaping

\* Mutant: the script is run before its argument is validated.
InvokesBeforeValidating(d) == d.kind \in {"exec", "error"}

\* Whether the synchronous part reached `await this.executeAppleScript(...)`.
Invokes(d) == d.kind = "exec"

\* Mutant: the server remembers the envelope of a request that succeeded and
\* answers the same request from memory while that one is still held.
HandleRemembering(c, req) ==
    LET d == Dispatch(variant, req)
        same == {o \in DOMAIN pc \ {c} : request[o] = req /\ settled[o] = "ok"}
    IN  IF same # {}
        THEN /\ request' = [request EXCEPT ![c] = req]
             /\ pc' = [pc EXCEPT ![c] = "returned"]
             /\ response' = [response EXCEPT ![c] = response[CHOOSE o \in same : TRUE]]
             /\ UNCHANGED <<variant, escaping, child, executed, fault, settled, stdout>>
        ELSE /\ request' = [request EXCEPT ![c] = req]
             /\ pc' = [pc EXCEPT ![c] =
                    CASE d.kind = "exec" -> "awaiting"
                      [] d.kind = "error" -> "returned"
                      [] OTHER -> "thrown"]
             /\ child' = [child EXCEPT ![c] = IF Invokes(d) THEN Spawn ELSE NoChild]
             /\ executed' = [executed EXCEPT ![c] =
                    IF Invokes(d) THEN Append(@, d.script) ELSE @]
             /\ response' = [response EXCEPT ![c] =
                    IF d.kind = "error" THEN ErrorEnvelope(d.message) ELSE NoResponse]
             /\ fault' = [fault EXCEPT ![c] = IF d.kind = "throw" THEN d.message ELSE <<>>]
             /\ UNCHANGED <<variant, escaping, settled, stdout>>

\* The handler runs on request req to its first await, or to its end when it
\* throws before reaching the executor.
Handle(c, req) ==
    LET d == Dispatch(variant, req)
    IN  /\ request' = [request EXCEPT ![c] = req]
        /\ pc' = [pc EXCEPT ![c] =
               CASE d.kind = "exec" -> "awaiting"
                 [] d.kind = "error" -> "returned"
                 [] OTHER -> "thrown"]
        /\ child' = [child EXCEPT ![c] =
               IF Invokes(d) THEN Spawn ELSE NoChild]
        /\ executed' = [executed EXCEPT ![c] =
               IF Invokes(d) THEN Append(@, d.script) ELSE @]
        /\ response' = [response EXCEPT ![c] =
               IF d.kind = "error" THEN ErrorEnvelope(d.message) ELSE NoResponse]
        /\ fault' = [fault EXCEPT ![c] =
               IF d.kind = "throw" THEN d.message ELSE <<>>]
        /\ UNCHANGED <<variant, escaping, settled, stdout>>

\* A request arrives and the transport starts the handler for it.
CallTool(c) ==
    /\ pc[c] = "idle"
    /\ \E req \in Requests : Handle(c, req)

\* The child exits 0 within the limits: executeAppleScript returns the
\* trimmed stdout and the handler wraps it.
ExecSucceeds(c) ==
    /\ pc[c] = "awaiting"
    /\ \E out \in Stdouts :
         /\ stdout' = [stdout EXCEPT ![c] = out]
         /\ response' = [response EXCEPT ![c] = SuccessEnvelope(ExecResult(out))]
    /\ settled' = [settled EXCEPT ![c] = "ok"]
    /\ pc' = [pc EXCEPT ![c] = "returned"]
    /\ child' = [child EXCEPT ![c] = NoChild]
    /\ UNCHANGED <<variant, escaping, request, executed, fault>>

\* Mutant: a failed invocation is tried a second time before the failure is
\* reported.
RejectWithRetry(c, kind) ==
    IF Len(executed[c]) < 2
    THEN /\ executed' = [executed EXCEPT ![c] = Append(@, @[Len(@)])]
         /\ settled' = [settled EXCEPT ![c] = kind]
         /\ child' = [child EXCEPT ![c] = Spawn]
         /\ UNCHANGED <<variant, escaping, pc, request, stdout, response, fault>>
    ELSE /\ response' = [response EXCEPT ![c] =
                ErrorEnvelope(ExecErrorMessage(kind, executed[c][Len(executed[c])]))]
         /\ settled' = [settled EXCEPT ![c] = kind]
         /\ pc' = [pc EXCEPT ![c] = "returned"]
         /\ child' = [child EXCEPT ![c] = NoChild]
         /\ UNCHANGED <<variant, escaping, request, executed, stdout, fault>>

\* execFile rejects with `kind`: executeAppleScript logs and rethrows, and the
\* handler's catch wraps error.message.
Reject(c, kind) ==
    /\ response' = [response EXCEPT ![c] =
           ErrorEnvelope(ExecErrorMessage(kind, executed[c][Len(executed[c])]))]
    /\ settled' = [settled EXCEPT ![c] = kind]
    /\ pc' = [pc EXCEPT ![c] = "returned"]
    /\ child' = [child EXCEPT ![c] = NoChild]
    /\ UNCHANGED <<variant, escaping, request, executed, stdout, fault>>

\* The child exits non-zero, or writes more than maxBuffer bytes.
ExecFails(c) ==
    /\ pc[c] = "awaiting"
    /\ \E kind \in ExecFailures \ {"timeout"} : Reject(c, kind)

\* The child is still running when `timeout` milliseconds have passed:
\* execFile kills it and rejects.  A timeout of 0 means no timer.
ExecTimesOut(c) ==
    /\ pc[c] = "awaiting"
    /\ child[c].timeout > 0
    /\ Reject(c, "timeout")

\* The transport takes the outcome; the slot is free for the next request.
Deliver(c) ==
    /\ pc[c] \in {"returned", "thrown"}
    /\ pc' = [pc EXCEPT ![c] = "idle"]
    /\ request' = [request EXCEPT ![c] = NoRequest]
    /\ executed' = [executed EXCEPT ![c] = <<>>]
    /\ settled' = [settled EXCEPT ![c] = "none"]
    /\ stdout' = [stdout EXCEPT ![c] = <<>>]
    /\ response' = [response EXCEPT ![c] = NoResponse]
    /\ fault' = [fault EXCEPT ![c] = <<>>]
    /\ UNCHANGED <<variant, escaping, child>>

Next ==
    \E c \in Calls :
        \/ CallTool(c)
        \/ ExecSucceeds(c)
        \/ ExecFails(c)
        \/ ExecTimesOut(c)
        \/ Deliver(c)

Spec == Init /\ [][Next]_vars

\* The child owes nothing: it may run forever.  The timer that execFile arms
\* for `timeout` milliseconds is what fires in any case.
FairSpec == Spec /\ \A c \in Calls : WF_vars(ExecTimesOut(c))

(***************************************************************************)
(* escapeAppleScriptString on its own: the function is applied to one      *)
(* input, its result is put between double quotes, and the interpreter     *)
(* reads the literal back.                                                 *)
(***************************************************************************)
\* The characters AppleScript's literal grammar takes after a backslash, and
\* what each stands for: \" \\ \n \r \t.  Any other pair is a syntax error.
Unescape(c) ==
    CASE c = "n" -> "\n"
      [] c = "r" -> "\r"
      [] c = "t" -> "\t"
      [] OTHER -> c

\* The body of a literal after its opening quote: the text read so far is
\* acc; ok when the closing quote is found, rest is what follows it.
RECURSIVE LiteralBody(_, _)
LiteralBody(t, acc) ==
    IF t = <<>> THEN [ok |-> FALSE, value |-> acc, rest |-> <<>>]
    ELSE IF Head(t) = "\"" THEN [ok |-> TRUE, value |-> acc, rest |-> Tail(t)]
    ELSE IF Head(t) = "\\"
         THEN IF Len(t) >= 2 /\ t[2] \in {"\"", "\\", "n", "r", "t"}
              THEN LiteralBody(SubSeq(t, 3, Len(t)), Append(acc, Unescape(t[2])))
              ELSE [ok |-> FALSE, value |-> acc, rest |-> t]
    ELSE LiteralBody(Tail(t), Append(acc, Head(t)))

\* The string literal at the start of text.
AppleScriptLiteral(text) ==
    IF text = <<>> \/ Head(text) # "\"" THEN NoLiteral
    ELSE LiteralBody(Tail(text), <<>>)

EscapeInit ==
    /\ variant \in Variants
    /\ pc = [c \in Calls |-> "idle"]
    /\ request = [c \in Calls |-> NoRequest]
    /\ child = [c \in Calls |-> NoChild]
    /\ executed = [c \in Calls |-> <<>>]
    /\ settled = [c \in Calls |-> "none"]
    /\ stdout = [c \in Calls |-> <<>>]
    /\ response = [c \in Calls |-> NoResponse]
    /\ fault = [c \in Calls |-> <<>>]
    /\ \E v \in EscapeInputs : escaping = [NoEscaping EXCEPT !.pc = "called", !.str = v]

\* escapeAppleScriptString(str) returns.
EscapeString ==
    /\ escaping.pc = "called"
    /\ escaping' = [escaping EXCEPT !.pc = "escaped",
                                    !.out = escapeFor(variant, escaping.str)]
    /\ UNCHANGED <<variant, callVars>>

\* The result is embedded as `"${...}"`, the way the play_track case does,
\* and the interpreter reads the literal.
ReadBack ==
    /\ escaping.pc = "escaped"
    /\ escaping' = [escaping EXCEPT !.pc = "read",
           !.back = AppleScriptLiteral(<<"\"">> \o escaping.out \o <<"\"">>)]
    /\ UNCHANGED <<variant, callVars>>

EscapeNext == EscapeString \/ ReadBack

EscapeSpec == EscapeInit /\ [][EscapeNext]_vars

(***************************************************************************)
(* Calls in flight together: the transport may start the handler for a     *)
(* request while earlier ones wait for their osascript.  One slot more     *)
(* than Calls, and a few requests: each kind of outcome, and set_shuffle   *)
(* with true.                                                              *)
(***************************************************************************)
Slots == 1..(NumCalls + 1)

ConcurrentRequests ==
    { Request(Undefined, FALSE, EmptyArgs),
      Request(Str(spotify_frobnicate), FALSE, EmptyArgs),
      Request(Str(spotify_get_volume), FALSE, EmptyArgs),
      Request(Str(spotify_set_shuffle), TRUE, [EmptyArgs EXCEPT !.enabled = Bool(TRUE)]),
      Request(Str(spotify_set_shuffle), TRUE, [EmptyArgs EXCEPT !.enabled = Str(TextTrue)]),
      Request(Str(spotify_set_volume), TRUE, [EmptyArgs EXCEPT !.volume = Num(IntNum(101))]),
      Request(Str(spotify_play_track), TRUE, [EmptyArgs EXCEPT !.uri = Str(TrackUri)]),
      Request(Str(spotify_play_track), TRUE,
              [EmptyArgs EXCEPT !.uri = Str(TrackUri), !.context = Str(<<>>)]) }

ConcurrentInit ==
    /\ variant \in Variants
    /\ pc = [c \in Slots |-> "idle"]
    /\ request = [c \in Slots |-> NoRequest]
    /\ child = [c \in Slots |-> NoChild]
    /\ executed = [c \in Slots |-> <<>>]
    /\ settled = [c \in Slots |-> "none"]
    /\ stdout = [c \in Slots |-> <<>>]
    /\ response = [c \in Slots |-> NoResponse]
    /\ fault = [c \in Slots |-> <<>>]
    /\ escaping = NoEscaping

\* A request arrives while other calls may be in flight.
CallToolConcurrently(c) ==
    /\ pc[c] = "idle"
    /\ \E req \in ConcurrentRequests : Handle(c, req)

ConcurrentNext ==
    \E c \in Slots :
        \/ CallToolConcurrently(c)
        \/ ExecSucceeds(c)
        \/ ExecFails(c)
        \/ ExecTimesOut(c)
        \/ Deliver(c)

ConcurrentSpec == ConcurrentInit /\ [][ConcurrentNext]_vars

(***************************************************************************)
(* Types.                                                                  *)
(***************************************************************************)
TypeOK ==
    /\ variant \in Variants
    /\ escaping = NoEscaping
    /\ \A c \in Calls :
         /\ pc[c] \in {"idle", "awaiting", "returned", "thrown"}
         /\ request[c] \in Requests \cup {NoRequest}
         /\ settled[c] \in {"none", "ok"} \cup ExecFailures
         /\ stdout[c] \in Stdouts
         /\ Len(executed[c]) \in 0..1
         /\ (pc[c] = "awaiting") = (child[c] # NoChild)
         /\ pc[c] = "idle" => request[c] = NoRequest /\ executed[c] = <<>>

(***************************************************************************)
(* Vocabulary of the properties.                                           *)
(***************************************************************************)
\* The call has left the transport and has not been taken back yet.
Active(c) == pc[c] # "idle"

ToolIs(c, tool) == request[c].name = Str(tool)

\* The one text block of an envelope.
TextOf(r) == r.content[1].text

IsErrorEnvelope(r) ==
    /\ DOMAIN r = {"content", "isError"}
    /\ r.isError = TRUE
    /\ Len(r.content) = 1
    /\ r.content[1].type = "text"

IsSuccessEnvelope(r) ==
    /\ DOMAIN r = {"content"}
    /\ Len(r.content) = 1
    /\ r.content[1].type = "text"

\* The envelope texts of the InvalidArgument failures.
InvalidArgumentTexts ==
    { <<"E","r","r","o","r",":"," ","I","n","v","a","l","i","d"," ","S","p","o","t","i","f","y"," ",  "U","R","I"," ","f","o","r","m","a","t">>,
      <<"E","r","r","o","r",":"," ","I","n","v","a","l","i","d"," ","S","p","o","t","i","f","y"," ",  "c","o","n","t","e","x","t"," ","U","R","I"," ","f","o","r","m","a","t">>,
      <<"E","r","r","o","r",":"," ","v","o","l","u","m","e"," ","m","u","s","t"," ","b","e"," ","a",  "n"," ","i","n","t","e","g","e","r">>,
      <<"E","r","r","o","r",":"," ","v","o","l","u","m","e"," ","m","u","s","t"," ","b","e"," ","b",  "e","t","w","e","e","n"," ","0"," ","a","n","d"," ","1","0","0">>,
      <<"E","r","r","o","r",":"," ","p","o","s","i","t","i","o","n"," ","m","u","s","t"," ","b","e",  " ","a"," ","v","a","l","i","d"," ","n","u","m","b","e","r">>,
      <<"E","r","r","o","r",":"," ","p","o","s","i","t","i","o","n"," ","m","u","s","t"," ","b","e",  " ","b","e","t","w","e","e","n"," ","0"," ","a","n","d"," ","I","n","f","i","n","i","t","y">>,
      <<"E","r","r","o","r",":"," ","e","n","a","b","l","e","d"," ","m","u","s","t"," ","b","e"," ",  "a"," ","b","o","o","l","e","a","n">> }

\* 'Error: Unknown tool: '
UnknownToolText ==
    <<"E","r","r","o","r",":"," ","U","n","k","n","o","w","n"," ","t","o","o","l",":"," ">>

\* 'Error: '
ErrorText ==
    <<"E","r","r","o","r",":"," ">>

EndedInvalidArgument(c) ==
    /\ pc[c] = "returned"
    /\ IsErrorEnvelope(response[c])
    /\ TextOf(response[c]) \in InvalidArgumentTexts

EndedUnknownTool(c) ==
    /\ pc[c] = "returned"
    /\ IsErrorEnvelope(response[c])
    /\ HasPrefix(TextOf(response[c]), UnknownToolText)

\* The executor was not invoked during the call.
NeverInvoked(c) == executed[c] = <<>> /\ child[c] = NoChild /\ settled[c] = "none"

(***************************************************************************)
(* C1: a call that ends in a validation failure (bad volume, position,     *)
(* enabled, uri or context) or in an unknown-tool failure never invoked    *)
(* the executor.                                                           *)
(***************************************************************************)
C1_RejectedNeverExecutes ==
    \A c \in Calls :
        EndedInvalidArgument(c) \/ EndedUnknownTool(c) => NeverInvoked(c)

\* set_volume 101 was rejected by the typed server, and a name outside the
\* catalogue was refused, neither with an invocation.
C1_Witness ==
    \E c \in Calls :
        /\ variant = "typed"
        /\ ToolIs(c, spotify_set_volume)
        /\ ArgsOf(request[c]).volume = Num(IntNum(101))
        /\ EndedInvalidArgument(c)
        /\ NeverInvoked(c)

(***************************************************************************)
(* C2: every failure kind of the taxonomy, MissingToolName included, is    *)
(* returned as a failure envelope with text "Error: " + message and        *)
(* isError = true; none reaches the caller as an uncaught fault.           *)
(***************************************************************************)
\* The claim as stated: no call ends with an Error escaping the handler.
C2_NoFaultEscapes ==
    \A c \in Calls : pc[c] # "thrown" /\ fault[c] = <<>>

\* The name is absent or empty.
MissingToolName(c) == request[c].name = Undefined \/ request[c].name = Str(<<>>)

\* Amended: every failure except MissingToolName is returned as a failure
\* envelope with text "Error: " + message and isError = true.  A request
\* whose name is absent or empty makes the handler throw "Tool name is
\* required" before its try block: that Error escapes, with no envelope.
C2_FailuresBecomeEnvelopes ==
    \A c \in Calls :
        /\ Active(c) /\ MissingToolName(c) =>
              /\ pc[c] = "thrown"
              /\ fault[c] = MsgToolNameRequired
              /\ response[c] = NoResponse
              /\ NeverInvoked(c)
        /\ Active(c) /\ ~MissingToolName(c) => pc[c] # "thrown" /\ fault[c] = <<>>
        /\ pc[c] = "returned" /\ settled[c] # "ok" =>
              /\ IsErrorEnvelope(response[c])
              /\ HasPrefix(TextOf(response[c]), ErrorText)
              /\ Len(TextOf(response[c])) > Len(ErrorText)

\* An executor failure came back as an envelope, and (in another call) a
\* request without a name ended in a fault.
C2_Witness ==
    \E c \in Calls :
        /\ pc[c] = "returned"
        /\ settled[c] = "exit"
        /\ IsErrorEnvelope(response[c])
        /\ HasPrefix(TextOf(response[c]), ErrorText)

C2_FaultWitness ==
    \E c \in Calls : MissingToolName(c) /\ pc[c] = "thrown"


(***************************************************************************)
(* C3: for every integer outside [0,100] given as volume, set_volume fails *)
(* with an InvalidArgument error envelope and the executor is never        *)
(* invoked; for every integer inside [0,100] the executor is invoked with  *)
(* a command that sets the sound volume to exactly that integer.           *)
(***************************************************************************)
\* v is a number-typed integer, and its value.
IsIntegerValue(v) == v.t = "number" /\ v.n.k = "finite" /\ v.n.frac = <<>>

IntegerOf(v) == IF v.n.neg THEN 0 - v.n.int ELSE v.n.int

\* The command sets the sound volume to i, written in decimal.
SetsVolumeTo(script, i) ==
    /\ HasPrefix(script, ScriptSetVolumeHead)
    /\ LET literal == Drop(script, Len(ScriptSetVolumeHead))
       IN  literal # <<>> /\ AllDigits(literal) /\ CharsToNat(literal) = i

VolumeContract(c) ==
    LET x == ArgsOf(request[c]).volume
    IN  Active(c) /\ ToolIs(c, spotify_set_volume) /\ IsIntegerValue(x) =>
            IF IntegerOf(x) \in 0..100
            THEN /\ Len(executed[c]) = 1
                 /\ SetsVolumeTo(executed[c][1], IntegerOf(x))
            ELSE EndedInvalidArgument(c) /\ NeverInvoked(c)

\* The claim as stated, for whichever server file runs.
C3_VolumeRange == \A c \in Calls : VolumeContract(c)

\* What holds: the typed server (src/server/index.js) keeps the contract.
C3_TypedServerVolumeRange == variant = "typed" => \A c \in Calls : VolumeContract(c)

C3_TypedWitness ==
    \E c \in Calls :
        /\ variant = "typed"
        /\ ToolIs(c, spotify_set_volume)
        /\ ArgsOf(request[c]).volume = Num(IntNum(100))
        /\ pc[c] = "awaiting"

(***************************************************************************)
(* C4: every command handed to the executor is a fixed command, or a fixed *)
(* template whose only caller-derived part is an integer in [0,100], a     *)
(* finite number >= 0, the literal true or false, or an escaped URI of the *)
(* Spotify-URI grammar; nothing derived from caller input ends a string    *)
(* literal, opens a new statement or otherwise changes the structure.      *)
(***************************************************************************)
FixedScripts ==
    { ScriptPlay, ScriptPause, ScriptPlayPause, ScriptNextTrack, ScriptPreviousTrack,
      ScriptGetCurrentTrack, ScriptGetPlayerState, ScriptGetVolume, ScriptGetPosition,
      ScriptGetRepeat, ScriptGetShuffle }

GrammarTypes ==
    { <<"t","r","a","c","k">>,
      <<"a","l","b","u","m">>,
      <<"a","r","t","i","s","t">>,
      <<"p","l","a","y","l","i","s","t">>,
      <<"s","h","o","w">>,
      <<"e","p","i","s","o","d","e">>,
      <<"u","s","e","r">>,
      <<"c","o","l","l","e","c","t","i","o","n">> }

\* spotify:<type>(:<segment>)+ with <segment> one or more of [a-zA-Z0-9],
\* said without the matcher: after the type come only alphanumerics and
\* colons, starting with a colon, ending with none, and no two colons meet.
InGrammar(s) ==
    \E type \in GrammarTypes :
        LET head == <<"s","p","o","t","i","f","y",":">> \o type
            r == Drop(s, Len(head))
        IN  /\ HasPrefix(s, head)
            /\ Len(r) >= 2
            /\ r[1] = ":"
            /\ r[Len(r)] # ":"
            /\ \A i \in 1..Len(r) : r[i] \in Alnum \cup {":"}
            /\ \A i \in 1..(Len(r) - 1) : ~(r[i] = ":" /\ r[i + 1] = ":")

\* An integer in [0,100] in decimal.
IsVolumeLiteral(t) == t # <<>> /\ AllDigits(t) /\ CharsToNat(t) <= 100

\* A finite number >= 0 in decimal: digits, or digits "." digits.
IsPositionLiteral(t) ==
    LET d == DotAt(t)
        ip == SubSeq(t, 1, d - 1)
        fp == SubSeq(t, d + 1, Len(t))
    IN  /\ ip # <<>> /\ AllDigits(ip)
        /\ d <= Len(t) => fp # <<>> /\ AllDigits(fp)

IsBooleanLiteral(t) == t = <<"t","r","u","e">> \/ t = <<"f","a","l","s","e">>

\* uri" or uri" in context "context" with both of the grammar.
IsPlayTrackTail(t) ==
    \E i \in 1..Len(t) :
        /\ InGrammar(SubSeq(t, 1, i - 1))
        /\ LET after == Drop(t, i - 1)
               inner == Drop(after, Len(ScriptInContext))
           IN  \/ after = ScriptQuote
               \/ /\ HasPrefix(after, ScriptInContext)
                  /\ inner # <<>>
                  /\ inner[Len(inner)] = "\""
                  /\ InGrammar(SubSeq(inner, 1, Len(inner) - 1))

WellFormedCommand(script) ==
    \/ script \in FixedScripts
    \/ /\ HasPrefix(script, ScriptSetVolumeHead)
       /\ IsVolumeLiteral(Drop(script, Len(ScriptSetVolumeHead)))
    \/ /\ HasPrefix(script, ScriptSetPositionHead)
       /\ IsPositionLiteral(Drop(script, Len(ScriptSetPositionHead)))
    \/ /\ HasPrefix(script, ScriptSetRepeatHead)
       /\ IsBooleanLiteral(Drop(script, Len(ScriptSetRepeatHead)))
    \/ /\ HasPrefix(script, ScriptSetShuffleHead)
       /\ IsBooleanLiteral(Drop(script, Len(ScriptSetShuffleHead)))
    \/ /\ HasPrefix(script, ScriptPlayTrackHead)
       /\ IsPlayTrackTail(Drop(script, Len(ScriptPlayTrackHead)))

CommandsWellFormed(c) ==
    \A i \in 1..Len(executed[c]) : WellFormedCommand(executed[c][i])

\* The claim as stated, for whichever server file runs.
C4_CommandsWellFormed == \A c \in Calls : CommandsWellFormed(c)

\* What holds: every command of the typed server (src/server/index.js) is
\* well formed.
C4_TypedServerCommandsWellFormed ==
    variant = "typed" => \A c \in Calls : CommandsWellFormed(c)

C4_TypedWitness ==
    \E c \in Calls :
        /\ variant = "typed"
        /\ ToolIs(c, spotify_play_track)
        /\ ArgsOf(request[c]).context = Str(AlbumUri)
        /\ Len(executed[c]) = 1

(***************************************************************************)
(* C5: for every uri outside the grammar spotify:<type>(:<segment>)+       *)
(* (non-text values, "not-a-uri", "spotify:track:" and                     *)
(* "spotify:track:has space" included), play_track fails with an           *)
(* InvalidArgument error envelope.                                         *)
(***************************************************************************)
\* v is text of the grammar.
IsGrammarUri(v) == v.t = "string" /\ InGrammar(v.s)

C5_BadUriRejected ==
    \A c \in Calls :
        Active(c) /\ ToolIs(c, spotify_play_track) /\ ~IsGrammarUri(ArgsOf(request[c]).uri)
        => /\ EndedInvalidArgument(c)
           /\ TextOf(response[c]) = ErrorText \o MsgInvalidUri
           /\ NeverInvoked(c)

\* "spotify:track:has space" was rejected.
C5_Witness ==
    \E c \in Calls :
        /\ ToolIs(c, spotify_play_track)
        /\ ArgsOf(request[c]).uri =
             Str(<<"s","p","o","t","i","f","y",":","t","r","a","c","k",":","h","a","s"," ","s","p","a","c","e">>)
        /\ EndedInvalidArgument(c)


(***************************************************************************)
(* C6: play_track with uri "spotify:track:4uLU6hMCjMI75M1A2tKUQC" and no   *)
(* context hands the executor the command                                  *)
(*   play track "spotify:track:4uLU6hMCjMI75M1A2tKUQC"                     *)
(* with no "in context" part, and when the executor succeeds the envelope  *)
(* is a non-error one (isError omitted) whose single text block is the     *)
(* executor's trimmed standard output.                                     *)
(***************************************************************************)
\* The whole command, with the tell prefix every command of the server has.
PlayTrackCommand ==
    <<"t","e","l","l"," ","a","p","p","l","i","c","a","t","i","o","n"," ","\"","S","p","o","t",
      "i","f","y","\""," ","t","o"," ","p","l","a","y"," ","t","r","a","c","k"," ","\"","s","p",
      "o","t","i","f","y",":","t","r","a","c","k",":","4","u","L","U","6","h","M","C","j","M",
      "I","7","5","M","1","A","2","t","K","U","Q","C","\"">>

\* t is s without the white space at its two ends.
IsTrimOf(t, s) ==
    /\ t # <<>> => t[1] \notin WhiteSpace /\ t[Len(t)] \notin WhiteSpace
    /\ \E i \in 0..Len(s) : \E j \in i..Len(s) :
          /\ SubSeq(s, i + 1, j) = t
          /\ \A k \in 1..i : s[k] \in WhiteSpace
          /\ \A k \in (j + 1)..Len(s) : s[k] \in WhiteSpace

C6_PlayTrackLiteral ==
    \A c \in Calls :
        /\ Active(c)
        /\ ToolIs(c, spotify_play_track)
        /\ request[c].hasArguments
        /\ request[c].arguments = [EmptyArgs EXCEPT !.uri = Str(TrackUri)]
        => /\ executed[c] = <<PlayTrackCommand>>
           /\ pc[c] = "returned" /\ settled[c] = "ok" =>
                 /\ IsSuccessEnvelope(response[c])
                 /\ IsTrimOf(TextOf(response[c]), stdout[c])

\* The executor wrote " playing " and a line break; the envelope says
\* "playing".
C6_Witness ==
    \E c \in Calls :
        /\ ToolIs(c, spotify_play_track)
        /\ request[c].arguments = [EmptyArgs EXCEPT !.uri = Str(TrackUri)]
        /\ executed[c] = <<PlayTrackCommand>>
        /\ pc[c] = "returned"
        /\ settled[c] = "ok"
        /\ stdout[c] = <<" ","p","l","a","y","i","n","g"," ","\n">>
        /\ response[c] = [content |-> <<[type |-> "text",
                                         text |-> <<"p","l","a","y","i","n","g">>]>>]

(***************************************************************************)
(* C7: a call whose tool name is not one of the 16 catalogue names, such   *)
(* as "spotify_frobnicate", returns an error envelope with isError = true  *)
(* whose text contains "Unknown tool: " followed by the requested name.    *)
(***************************************************************************)
CatalogueNames == {Str(t) : t \in NoArgTools \cup ParamTools}

Contains(s, sub) ==
    \E i \in 0..(Len(s) - Len(sub)) : SubSeq(s, i + 1, i + Len(sub)) = sub

\* 'Unknown tool: '
UnknownToolLabel ==
    <<"U","n","k","n","o","w","n"," ","t","o","o","l",":"," ">>

C7_UnknownToolRefused ==
    \A c \in Calls :
        Active(c) /\ ~MissingToolName(c) /\ request[c].name \notin CatalogueNames
        => /\ pc[c] = "returned"
           /\ IsErrorEnvelope(response[c])
           /\ Contains(TextOf(response[c]),
                       UnknownToolLabel \o
                       (IF request[c].name.t = "string" THEN request[c].name.s
                        ELSE ToStringJS(request[c].name)))
           /\ NeverInvoked(c)

C7_Witness ==
    \E c \in Calls :
        /\ ToolIs(c, spotify_frobnicate)
        /\ pc[c] = "returned"
        /\ IsErrorEnvelope(response[c])
        /\ TextOf(response[c]) =
             <<"E","r","r","o","r",":"," ","U","n","k","n","o","w","n"," ","t","o","o","l",":",
               " ","s","p","o","t","i","f","y","_","f","r","o","b","n","i","c","a","t","e">>

(***************************************************************************)
(* C8: set_repeat and set_shuffle coerce nothing: an enabled value whose   *)
(* type is not boolean (the string "true", the number 1, null, absent)     *)
(* fails with an error envelope and no invocation; for true or false the   *)
(* command carries exactly that boolean literal.                           *)
(***************************************************************************)
BooleanContract(c, tool, head) ==
    LET x == ArgsOf(request[c]).enabled
    IN  Active(c) /\ ToolIs(c, tool) =>
            IF x.t = "boolean"
            THEN executed[c] =
                   << head \o (IF x.b THEN <<"t","r","u","e">> ELSE <<"f","a","l","s","e">>) >>
            ELSE /\ pc[c] = "returned"
                 /\ IsErrorEnvelope(response[c])
                 /\ NeverInvoked(c)

BooleansContract(c) ==
    /\ BooleanContract(c, spotify_set_repeat, ScriptSetRepeatHead)
    /\ BooleanContract(c, spotify_set_shuffle, ScriptSetShuffleHead)

\* The claim as stated, for whichever server file runs.
C8_NoTruthyCoercion == \A c \in Calls : BooleansContract(c)

\* What holds: the typed server (src/server/index.js) keeps the contract.
C8_TypedServerNoTruthyCoercion == variant = "typed" => \A c \in Calls : BooleansContract(c)

C8_TypedWitness ==
    \E c \in Calls :
        /\ variant = "typed"
        /\ ToolIs(c, spotify_set_shuffle)
        /\ ArgsOf(request[c]).enabled = Str(<<"t","r","u","e">>)
        /\ EndedInvalidArgument(c)

(***************************************************************************)
(* C9: set_position accepts exactly the finite numbers >= 0: position 0    *)
(* reaches the executor and succeeds when the executor succeeds; a         *)
(* negative position (such as -0.0001) or a non-finite one fails with an   *)
(* InvalidArgument error envelope and no invocation.                       *)
(***************************************************************************)
\* v is a number-typed finite value that is not below zero.
IsFiniteNonNegative(v) ==
    /\ v.t = "number"
    /\ v.n.k = "finite"
    /\ ~(v.n.neg /\ (v.n.int > 0 \/ v.n.frac # <<>>))

PositionContract(c) ==
    LET x == ArgsOf(request[c]).position
    IN  Active(c) /\ ToolIs(c, spotify_set_position) /\ x.t = "number" =>
            IF IsFiniteNonNegative(x)
            THEN /\ Len(executed[c]) = 1
                 /\ HasPrefix(executed[c][1], ScriptSetPositionHead)
                 /\ settled[c] = "ok" => IsSuccessEnvelope(response[c])
            ELSE EndedInvalidArgument(c) /\ NeverInvoked(c)

\* The claim as stated, for whichever server file runs.
C9_PositionRange == \A c \in Calls : PositionContract(c)

\* What holds: the typed server (src/server/index.js) keeps the contract.
C9_TypedServerPositionRange == variant = "typed" => \A c \in Calls : PositionContract(c)

C9_TypedWitness ==
    \E c \in Calls :
        /\ variant = "typed"
        /\ ToolIs(c, spotify_set_position)
        /\ ArgsOf(request[c]).position = Num(Finite(TRUE, 0, <<0, 0, 0, 1>>))
        /\ EndedInvalidArgument(c)

(***************************************************************************)
(* C10: every call terminates: when the executor does not return within    *)
(* the timeout (30000 ms), exits non-zero or exceeds the output cap, the   *)
(* call ends with a failure envelope (text "Error: " + message, isError =  *)
(* true); no call stays pending forever.                                   *)
(***************************************************************************)
C10_CallsTerminate ==
    /\ \A c \in Calls : []<>(pc[c] # "awaiting")
    /\ [](\A c \in Calls :
            /\ pc[c] = "awaiting" => child[c].timeout = 30000
            /\ settled[c] \in {"exit", "maxBuffer", "timeout"} =>
                  /\ pc[c] = "returned"
                  /\ IsErrorEnvelope(response[c])
                  /\ HasPrefix(TextOf(response[c]), ErrorText))

\* The timer fired on a child that was still running, and the call ended
\* with a failure envelope.
C10_Witness ==
    \E c \in Calls :
        /\ settled[c] = "timeout"
        /\ pc[c] = "returned"
        /\ response[c].isError = TRUE


(***************************************************************************)
(* C11: there is no retry: during one call the executor is invoked at most *)
(* once, a failed invocation is never followed by another one for the same *)
(* call, and the dispatcher (the try block of the handler, which a request *)
(* naming a tool enters) returns exactly one envelope per call.            *)
(***************************************************************************)
\* r is one of the two envelopes of the handler.
IsEnvelope(r) == IsErrorEnvelope(r) \/ IsSuccessEnvelope(r)

\* The invocation of call c has failed.
InvocationFailed(c) == settled[c] \in ExecFailures

\* Call c is taken by the transport in this step.
Delivered(c) == pc[c] \in {"returned", "thrown"} /\ pc'[c] = "idle"

ReadsBackAs(s) ==
    /\ escaping.back.ok
    /\ escaping.back.rest = <<>>
    /\ escaping.back.value = s

IsText(v) == v.t = "string"

C12_EscapeRoundTrip ==
    /\ escaping.pc = "read" /\ IsText(escaping.str) => ReadsBackAs(escaping.str.s)
    /\ escaping.pc \in {"escaped", "read"} /\ ~IsText(escaping.str) => escaping.out = <<>>

\* Lemma: the escape of src/unnamed/part_000 reads back as its input, and in
\* both files an input that is not text gives the empty string.
C12_LooseServerRoundTrip ==
    /\ variant = "loose" /\ escaping.pc = "read" /\ IsText(escaping.str) =>
          ReadsBackAs(escaping.str.s)
    /\ escaping.pc \in {"escaped", "read"} /\ ~IsText(escaping.str) => escaping.out = <<>>

\* Lemma: the escape of src/server/index.js reads back as its input when the
\* input has no form feed.
C12_TypedServerRoundTrip ==
    variant = "typed" /\ escaping.pc = "read" /\ IsText(escaping.str)
        /\ (\A i \in 1..Len(escaping.str.s) : escaping.str.s[i] # "\f")
    => ReadsBackAs(escaping.str.s)

\* A quote followed by a backslash went through the loose escape and back.
C12_LooseWitness ==
    /\ variant = "loose"
    /\ escaping.pc = "read"
    /\ escaping.str = Str(<<"\"", "\\">>)
    /\ escaping.out = <<"\\", "\"", "\\", "\\">>
    /\ ReadsBackAs(<<"\"", "\\">>)

(***************************************************************************)
(* C13: the core accumulates no state across calls: in any sequence or     *)
(* interleaving of calls, the command issued and the envelope returned for *)
(* a call depend only on that call's tool name, arguments and executor     *)
(* outcome; set_shuffle({enabled: true}) issued twice with the same        *)
(* executor outcome yields two successful, structurally identical          *)
(* envelopes.                                                              *)
(***************************************************************************)
\* The executor outcome of the call in slot c.
OutcomeOf(c) == <<settled[c], stdout[c]>>

\* The handler of slot c has finished.
Finished(c) == pc[c] \in {"returned", "thrown"}

ShuffleOn ==
    Request(Str(spotify_set_shuffle), TRUE, [EmptyArgs EXCEPT !.enabled = Bool(TRUE)])

C13_NoStateAcrossCalls ==
    \A c, d \in Slots :
        c # d /\ Active(c) /\ Active(d) /\ request[c] = request[d] =>
            \* the same command, or none for both
            /\ executed[c] = executed[d]
            /\ fault[c] = fault[d]
            /\ (pc[c] = "thrown") = (pc[d] = "thrown")
            \* the same envelope once both have the same outcome
            /\ Finished(c) /\ Finished(d) /\ OutcomeOf(c) = OutcomeOf(d) =>
                  response[c] = response[d]
            /\ request[c] = ShuffleOn /\ settled[c] = "ok" /\ settled[d] = "ok"
                  /\ stdout[c] = stdout[d] =>
                  /\ IsSuccessEnvelope(response[c])
                  /\ IsSuccessEnvelope(response[d])
                  /\ response[c] = response[d]

\* set_shuffle({enabled: true}) was answered in one slot, and later issued
\* and answered again in another, with the same executor outcome.
C13_Witness ==
    \E c, d \in Slots :
        /\ c # d
        /\ request[c] = ShuffleOn
        /\ request[d] = ShuffleOn
        /\ settled[c] = "ok" /\ settled[d] = "ok"
        /\ stdout[c] = stdout[d]
        /\ pc[c] = "returned" /\ pc[d] = "returned"
        /\ response[c] = response[d]

(***************************************************************************)
(* C14: the catalogue and the dispatcher agree one to one: the discovery   *)
(* list advertises exactly 16 tools with pairwise distinct names, every    *)
(* advertised name is handled by the dispatcher (never answered with       *)
(* "Unknown tool"), and every name the dispatcher handles is advertised.   *)
(***************************************************************************)
\* The names a client is told about.
Advertised == {Str(tools[i]) : i \in DOMAIN tools}

\* The handler of call c went past the switch into a case of its own.
HandledByACase(c) ==
    /\ pc[c] # "thrown"
    /\ ~EndedUnknownTool(c)

C14_CatalogueMatchesDispatcher ==
    /\ Len(tools) = 16
    /\ \A i, j \in DOMAIN tools : i # j => tools[i] # tools[j]
    /\ {manifestTools[i] : i \in DOMAIN manifestTools} = {tools[i] : i \in DOMAIN tools}
    /\ \A c \in Calls :
          Active(c) =>
             IF request[c].name \in Advertised
             THEN HandledByACase(c)
             ELSE ~HandledByACase(c)

\* The last tool of the list was called and answered from its own case.
C14_Witness ==
    \E c \in Calls :
        /\ ToolIs(c, tools[Len(tools)])
        /\ settled[c] = "ok"
        /\ IsSuccessEnvelope(response[c])
        /\ executed[c] = <<ScriptGetShuffle>>

(***************************************************************************)
(* C15: play_track validates the context as well as the uri: whenever a    *)
(* context argument is supplied and its value does not match the           *)
(* Spotify-URI grammar (the empty string and non-text values included),    *)
(* play_track fails with an error envelope and the executor is not         *)
(* invoked; the "in context" part is emitted only for a context that       *)
(* matched the grammar.                                                    *)
(***************************************************************************)
ContextOf(c) == ArgsOf(request[c]).context

UriOf(c) == ArgsOf(request[c]).uri

\* ' in context "'
InContextWords == <<" ","i","n"," ","c","o","n","t","e","x","t"," ","\"">>

\* The values JavaScript takes for false in a condition.
IsFalsy(v) ==
    \/ v = Undefined
    \/ v = Null
    \/ v = Bool(FALSE)
    \/ v.t = "number" /\ (v.n.k = "NaN" \/ (v.n.k = "finite" /\ v.n.int = 0 /\ v.n.frac = <<>>))
    \/ v = Str(<<>>)

\* Every command of call c with an "in context" part belongs to a context of
\* the grammar.
InContextOnlyForGrammar(c) ==
    \A i \in DOMAIN executed[c] :
        Contains(executed[c][i], InContextWords) => IsGrammarUri(ContextOf(c))

\* The claim as stated: violated by a context of null, false, 0 or ''.
C15_ContextValidated ==
    \A c \in Calls :
        Active(c) /\ ToolIs(c, spotify_play_track) =>
            /\ ContextOf(c) # Undefined /\ ~IsGrammarUri(ContextOf(c)) =>
                  /\ pc[c] = "returned"
                  /\ IsErrorEnvelope(response[c])
                  /\ NeverInvoked(c)
            /\ InContextOnlyForGrammar(c)

\* Amended: a context that is not falsy and does not match the grammar makes
\* play_track fail with an error envelope and no invocation; a falsy context
\* (absent, null, false, 0, NaN, '') is taken as absent, and the track of a
\* valid uri is played without an "in context" part; the part is emitted
\* only for a context that matched the grammar.
C15_TruthyContextValidated ==
    \A c \in Calls :
        Active(c) /\ ToolIs(c, spotify_play_track) =>
            /\ ~IsFalsy(ContextOf(c)) /\ ~IsGrammarUri(ContextOf(c)) =>
                  /\ EndedInvalidArgument(c)
                  /\ NeverInvoked(c)
                  /\ IsGrammarUri(UriOf(c)) =>
                        TextOf(response[c]) = ErrorText \o MsgInvalidContext
            /\ IsFalsy(ContextOf(c)) /\ IsGrammarUri(UriOf(c)) =>
                  /\ executed[c] = <<ScriptPlayTrackHead \o UriOf(c).s \o ScriptQuote>>
                  /\ ~Contains(executed[c][1], InContextWords)
            /\ InContextOnlyForGrammar(c)

\* A context outside the grammar was refused, with a valid uri.
C15_Witness ==
    \E c \in Calls :
        /\ ToolIs(c, spotify_play_track)
        /\ UriOf(c) = Str(TrackUri)
        /\ ContextOf(c) = Str(<<"s","p","o","t","i","f","y",":","t","r","a","c","k",":","h","a","s"," ","s","p","a","c","e">>)
        /\ EndedInvalidArgument(c)
        /\ TextOf(response[c]) = ErrorText \o MsgInvalidContext
        /\ NeverInvoked(c)

\* A context of the grammar was used: the command has its "in context" part.
C15_InContextWitness ==
    \E c \in Calls :
        /\ ToolIs(c, spotify_play_track)
        /\ ContextOf(c) = Str(AlbumUri)
        /\ Len(executed[c]) = 1
        /\ Contains(executed[c][1], InContextWords \o AlbumUri)

(***************************************************************************)
(* C16: for each tool that declares a required parameter (play_track.uri,  *)
(* set_volume.volume, set_position.position, set_repeat.enabled,           *)
(* set_shuffle.enabled), a call in which that parameter is absent from the *)
(* argument bag, or in which the bag itself is absent, fails with an error *)
(* envelope and never invokes the executor.                                *)
(***************************************************************************)
\* The required parameter of call c, when its tool declares one, is absent:
\* the bag is absent, or holds no value under the parameter's name.
RequiredParameterAbsent(c) ==
    LET bag == request[c].arguments
        sent == request[c].hasArguments
    IN  \/ ToolIs(c, spotify_play_track) /\ (~sent \/ bag.uri = Undefined)
        \/ ToolIs(c, spotify_set_volume) /\ (~sent \/ bag.volume = Undefined)
        \/ ToolIs(c, spotify_set_position) /\ (~sent \/ bag.position = Undefined)
        \/ ToolIs(c, spotify_set_repeat) /\ (~sent \/ bag.enabled = Undefined)
        \/ ToolIs(c, spotify_set_shuffle) /\ (~sent \/ bag.enabled = Undefined)

RequiredParameterContract(c) ==
    Active(c) /\ RequiredParameterAbsent(c) =>
        /\ pc[c] = "returned"
        /\ IsErrorEnvelope(response[c])
        /\ HasPrefix(TextOf(response[c]), ErrorText)
        /\ NeverInvoked(c)

C16_RequiredParameters == \A c \in Calls : RequiredParameterContract(c)

\* Lemma: src/server/index.js keeps the contract, and in both files
\* play_track without a uri is refused.
C16_TypedServerRequiredParameters ==
    \A c \in Calls :
        variant = "typed" \/ ToolIs(c, spotify_play_track) => RequiredParameterContract(c)

\* set_volume arrived without an argument bag at the typed server and was
\* refused.
C16_TypedWitness ==
    \E c \in Calls :
        /\ variant = "typed"
        /\ ToolIs(c, spotify_set_volume)
        /\ ~request[c].hasArguments
        /\ EndedInvalidArgument(c)
        /\ NeverInvoked(c)
====
